---- MODULE Spec2Model ----
(***************************************************************************)
(* Filer: FileStatsCollector (Filing/filestatser.py) scans a directory    *)
(* tree into a list of file records; MediaGatherer (Filing/gatherer.py)   *)
(* moves the scanned records into a destination folder, renaming on name  *)
(* conflicts, optionally in batches with a pause after each batch.        *)
(*                                                                         *)
(* Paths and file names are sequences of one-character strings, so that   *)
(* os.path.join, os.path.splitext, the "(N)" suffix regex and the skip    *)
(* substring test are computed as the code computes them.  Long literal   *)
(* names of the source are abbreviated: '.jpg' is ".j", 'media' is "m".   *)
(***************************************************************************)
EXTENDS Integers, Sequences, FiniteSets, TLC

\* ------------------------------------------------------------------ bounds
MaxBatchSize == 2      \* batch_size arguments tried: 1..MaxBatchSize
MaxDenied    == 1      \* moves that the OS may refuse in one run
MaxVanish    == 1      \* scanned files deleted by others before the move run
MaxRecords   == 3      \* the longest record list handed to the report methods

\* ------------------------------------------------------- program constants
BatchThreshold == 100  \* gather_media: len(self.file_stats) > 100

None == <<"None">>     \* Python's None for an optional path argument

\* ----------------------------------------------------------- string helpers
Digits == {"0", "1", "2", "3", "4", "5", "6", "7", "8", "9"}

DigitChar(d) ==
    CASE d = 0 -> "0" [] d = 1 -> "1" [] d = 2 -> "2" [] d = 3 -> "3"
      [] d = 4 -> "4" [] d = 5 -> "5" [] d = 6 -> "6" [] d = 7 -> "7"
      [] d = 8 -> "8" [] OTHER -> "9"

RECURSIVE Str(_)
\* str(counter) inside the f-string of rename_if_exists
Str(n) == IF n < 10 THEN <<DigitChar(n)>>
          ELSE Str(n \div 10) \o <<DigitChar(n % 10)>>

\* str.lower() on the characters the model uses
LowerChar(c) == CASE c = "J" -> "j" [] c = "T" -> "t" [] c = "X" -> "x"
                  [] c = "B" -> "b" [] c = "M" -> "m" [] c = "E" -> "e"
                  [] OTHER -> c

Lower(s) == [i \in 1..Len(s) |-> LowerChar(s[i])]

\* the Python slice s[lo:hi] with 0-based lo, clamped to the sequence
Slice(s, lo, hi) ==
    LET h == IF hi > Len(s) THEN Len(s) ELSE hi
    IN  IF lo >= h THEN <<>> ELSE SubSeq(s, lo + 1, h)

\* str.endswith
EndsWith(s, suf) ==
    /\ Len(suf) <= Len(s)
    /\ SubSeq(s, Len(s) - Len(suf) + 1, Len(s)) = suf

\* a test that looks for sub at the end of s only
ContainsAtEnd(sub, s) == EndsWith(s, sub)

\* the Python test  sub in s
Contains(sub, s) ==
    \E i \in 0..(Len(s) - Len(sub)) : SubSeq(s, i + 1, i + Len(sub)) = sub

\* str.rfind, 1-based, 0 when absent
RFind(s, c) ==
    LET hits == {i \in 1..Len(s) : s[i] = c}
    IN  IF hits = {} THEN 0 ELSE CHOOSE i \in hits : \A j \in hits : j <= i

\* os.path.join(a, b) for a relative second component
Join(a, b) ==
    IF a = <<>> \/ a[Len(a)] = "/" THEN a \o b ELSE a \o <<"/">> \o b

\* os.path.splitext(p): the extension starts at the last dot of the last
\* component, unless that component consists of leading dots only before it
SplitExt(p) ==
    LET sepIndex == RFind(p, "/")
        dotIndex == RFind(p, ".")
    IN  IF /\ dotIndex > sepIndex
           /\ \E f \in (sepIndex + 1)..(dotIndex - 1) : p[f] # "."
        THEN <<SubSeq(p, 1, dotIndex - 1), SubSeq(p, dotIndex, Len(p))>>
        ELSE <<p, <<>>>>

\* os.path.dirname / os.path.basename
DirName(p)  == LET s == RFind(p, "/") IN IF s <= 1 THEN SubSeq(p, 1, s) ELSE SubSeq(p, 1, s - 1)
BaseName(p) == SubSeq(p, RFind(p, "/") + 1, Len(p))

\* ------------------------------------------------------------- file system
RootR  == <<"r">>                       \* an existing directory
RootQ  == <<"q">>                       \* a path that does not exist
RootF  == <<"f">>                       \* an existing regular file
DirA   == <<"r", "/", "a">>
DirB   == <<"r", "/", "b">>
DirD   == <<"r", "/", "d">>
NameX  == <<"x", ".", "j">>
NameX1 == <<"x", "(", "1", ")", ".", "j">>
NameB  == <<"b", ".", "t">>

\* candidate files of the initial tree: <<path, inode>>
FixedFiles    == { <<RootF, 7>>, <<Join(DirA, NameX), 2>>, <<Join(DirB, NameX), 3>>,
                   <<Join(DirA, NameB), 6>> }
OptionalFiles == { <<Join(DirD, NameX), 4>>, <<Join(DirD, NameX1), 5>> }

\* st_size of an inode
SizeOf(ino) == ino * 10

FsOf(S) == [p \in {e[1] : e \in S} |-> (CHOOSE e \in S : e[1] = p)[2]]

VARIABLES
    fs,                 \* regular files: path -> inode
    dirs,               \* directories: set of paths
    pc,                 \* "init" | "raised" | "scanned" | "ready" | "batchloop"
                        \* | "moving" | "returned" | "done"
    root_folder, media_extensions, all_files, skip_folders, file_stats,  \* FileStatsCollector fields
    moved_files, dest_folder,                                         \* MediaGatherer fields
    scanError,          \* some process_files call or the pool raised during the scan
    files_to_move, destination_folder, batch_size,   \* arguments of the running move
    i, batch, k,        \* _batch_move_files: offset; move_files_to_destination: slice, loop position
    fs0,                \* the regular files when the move run started
    attempts,           \* records the move loop has reached, in order
    failed,             \* source paths whose shutil.move raised
    movedOrder,         \* final destinations of the successful moves, in order
    sleeps,             \* sleep(delay) calls made
    batches,            \* batches started
    denied, vanished,   \* refusals and deletions so far
    tasks,              \* _gather_file_stats: the folders handed to pool.starmap
    results,            \* the pool: what each finished process_files call returned
    out                 \* what the last reporting call printed or returned

vars == <<fs, dirs, pc, root_folder, media_extensions, all_files, skip_folders,
          file_stats, moved_files, dest_folder, scanError, files_to_move,
          destination_folder, batch_size, i, batch, k, fs0, attempts, failed,
          movedOrder, sleeps, batches, denied, vanished, tasks, results, out>>

collectorVars == <<root_folder, media_extensions, all_files, skip_folders, file_stats,
                   dest_folder, scanError>>
runVars       == <<files_to_move, destination_folder, batch_size, i, batch, k>>
ghostVars     == <<fs0, attempts, failed, movedOrder, sleeps, batches>>
reportVars    == <<tasks, results, out>>

\* nothing has been reported yet
NoReport == [op |-> "none"]

\* os.path.exists

Exists(p) == p \in DOMAIN fs \/ p \in dirs

EmptyMap == [p \in {} |-> <<>>]

\* ------------------------------------------------------ FileStatsCollector
\* the default media_extensions list ('.mp3', ..., '.jpg', ...) abbreviated
DefaultMediaExtensions == << <<".", "j">>, <<".", "p">> >>

\* FileStatsCollector.is_media_file
is_media_file(filename, exts) ==
    \E e \in 1..Len(exts) : EndsWith(Lower(filename), exts[e])

\* FileStatsCollector.check_root_folder: TRUE when it returns, FALSE when it raises
check_root_folder(folder) == Exists(folder)

\* every directory the model can hold, in the order os.walk reports them
DirOrder == <<RootR, DirA, DirB, DirD, Join(RootR, <<"m">>), <<"e">>,
              <<"r", "/", "s">>, <<"r", "/", "s", "/", "u">>, <<"r", "/", "e">>,
              <<"g">>, <<"g", "/", "m">>>>

\* d is top itself or lies below it
IsUnder(top, d) ==
    \/ d = top
    \/ /\ Len(d) > Len(top) + 1
       /\ SubSeq(d, 1, Len(top)) = top
       /\ d[Len(top) + 1] = "/"

\* os.walk(top): the directories reachable from top, top first; nothing when
\* top is not a directory (the scandir error is swallowed by os.walk)
Walk(top) == SelectSeq(DirOrder, LAMBDA d : d \in dirs /\ top \in dirs /\ IsUnder(top, d))

\* the paths of S by rising inode (distinct files have distinct inodes)
SortByInode(S) ==
    [n \in 1..Cardinality(S) |->
        CHOOSE p \in S : Cardinality({q \in S : fs[q] < fs[p]}) = n - 1]

\* os.scandir(foldername) restricted to entry.is_file(): paths in a fixed order
Listing(foldername) ==
    SortByInode({p \in DOMAIN fs : p = Join(foldername, BaseName(p)) /\ foldername \in dirs})

\* the dict process_files appends for one entry
StatRecord(foldername, path) ==
    [FileName     |-> BaseName(path),
     FileType     |-> Lower(SplitExt(BaseName(path))[2]),
     FileSize     |-> SizeOf(fs[path]),
     SourceFolder |-> foldername]

\* a process_files that returns nothing once an entry has raised
process_files_discarding(foldername, all, exts, failAt) ==
    LET entries == Listing(foldername)
        hits    == SelectSeq(entries, LAMBDA p : all \/ is_media_file(BaseName(p), exts))
    IN  IF failAt = 0 THEN [n \in 1..Len(hits) |-> StatRecord(foldername, hits[n])]
        ELSE <<>>

\* FileStatsCollector.process_files; failAt = 0: no exception, failAt = c > 0:
\* the exception is raised when entry c is reached, folder_stats built so
\* far is returned
process_files(foldername, all, exts, failAt) ==
    LET entries == Listing(foldername)
        seen    == IF failAt = 0 THEN entries ELSE Slice(entries, 0, failAt - 1)
        hits    == SelectSeq(seen, LAMBDA p : all \/ is_media_file(BaseName(p), exts))
    IN  [n \in 1..Len(hits) |-> StatRecord(foldername, hits[n])]

\* a scan that hands every walked folder to the pool
ScannedFoldersAll(top, skips) == Walk(top)

\* the folders handed to the pool: all(skip_folder not in foldername ...)
ScannedFolders(top, skips) ==
    SelectSeq(Walk(top), LAMBDA d : \A s \in 1..Len(skips) : ~Contains(skips[s], d))

NoFailure == [kind |-> "none", folder |-> <<>>, at |-> 0]

\* what can go wrong during one scan: nothing, one process_files call raising
\* at some entry, or the pool itself raising
ScanFailures(top, skips) ==
    LET folders == ScannedFolders(top, skips)
    IN  {NoFailure} \cup {[kind |-> "pool", folder |-> <<>>, at |-> 0]}
        \cup {[kind |-> "folder", folder |-> folders[n], at |-> c] :
                n \in 1..Len(folders), c \in 1..2}

RECURSIVE ConcatStats(_, _, _, _)
ConcatStats(folders, all, exts, fail) ==
    IF folders = <<>> THEN <<>>
    ELSE process_files(Head(folders), all, exts,
                       IF fail.kind = "folder" /\ fail.folder = Head(folders)
                       THEN fail.at ELSE 0)
         \o ConcatStats(Tail(folders), all, exts, fail)

\* FileStatsCollector._gather_file_stats
gather_file_stats(top, skips, all, exts, fail) ==
    IF fail.kind = "pool" THEN <<>>
    ELSE ConcatStats(ScannedFolders(top, skips), all, exts, fail)

\* the skip_folders lists a caller supplies
SkipChoices == { <<>>, << <<"b">> >> }
RootChoices == { RootR, RootQ, RootF }
DestChoices == { None, DirD }

\* FileStatsCollector.__init__ (root, extensions, all_files, skip list): the
\* assignments after check_root_folder returned
CollectorInit(root, exts, all, skips, fail) ==
    /\ root_folder' = root
    /\ media_extensions' = exts
    /\ all_files' = all
    /\ skip_folders' = skips
    /\ file_stats' = gather_file_stats(root, skips, all, exts, fail)
    /\ scanError' = (fail.kind # "none")

\* FileStatsCollector(root, all_files=all, skip_folders=skips)
NewFileStatsCollector(root, all, skips, fail) ==
    /\ pc = "init"
    /\ IF check_root_folder(root)
       THEN /\ CollectorInit(root, DefaultMediaExtensions, all, skips, fail)
            /\ pc' = "scanned"
       ELSE /\ fail = NoFailure
            /\ pc' = "raised"
            /\ UNCHANGED <<root_folder, media_extensions, all_files, skip_folders,
                           file_stats, scanError>>
    /\ UNCHANGED <<fs, dirs, moved_files, dest_folder, runVars, ghostVars, denied, vanished>>
    /\ UNCHANGED reportVars

\* MediaGatherer(root, destination_folder=dest, skip_folders=skips, all_files=all)
NewMediaGatherer(root, dest, all, skips, fail) ==
    LET destination == IF dest = None THEN Join(root, <<"m">>) ELSE dest
        skip        == Append(skips, destination)
    IN  /\ pc = "init"
        /\ IF check_root_folder(root)
           THEN /\ CollectorInit(root, DefaultMediaExtensions, all, skip, fail)
                /\ moved_files' = EmptyMap
                /\ dest_folder' = destination
                /\ pc' = "ready"
           ELSE /\ fail = NoFailure
                /\ pc' = "raised"
                /\ UNCHANGED <<root_folder, media_extensions, all_files, skip_folders,
                               file_stats, scanError, moved_files, dest_folder>>
        /\ UNCHANGED <<fs, dirs, runVars, ghostVars, denied, vanished>>
        /\ UNCHANGED reportVars

\* ----------------------------------------------------------- MediaGatherer
RECURSIVE remove_number_suffix_all(_)
\* a strip that takes off every trailing "(digits)" group
remove_number_suffix_all(basename) ==
    LET n        == Len(basename)
        nondigit == {j \in 1..(n - 1) : basename[j] \notin Digits}
        open     == IF nondigit = {} THEN 0
                    ELSE CHOOSE j \in nondigit : \A h \in nondigit : h <= j
    IN  IF /\ n >= 3
           /\ basename[n] = ")"
           /\ open >= 1
           /\ open < n - 1
           /\ basename[open] = "("
        THEN remove_number_suffix_all(SubSeq(basename, 1, open - 1))
        ELSE basename

\* MediaGatherer.remove_number_suffix: re.match(r'^(.*?)\(\d+\)$', basename)
remove_number_suffix(basename) ==
    LET n        == Len(basename)
        nondigit == {j \in 1..(n - 1) : basename[j] \notin Digits}
        open     == IF nondigit = {} THEN 0
                    ELSE CHOOSE j \in nondigit : \A h \in nondigit : h <= j
    IN  IF /\ n >= 3
           /\ basename[n] = ")"
           /\ open >= 1
           /\ open < n - 1
           /\ basename[open] = "("
        THEN SubSeq(basename, 1, open - 1)
        ELSE basename

RECURSIVE ProbeStacking(_, _, _, _)
\* a probe that suffixes the candidate it has just rejected
ProbeStacking(new_filename, counter, base_name, extension) ==
    IF Exists(new_filename)
    THEN ProbeStacking(SplitExt(new_filename)[1] \o <<"(">> \o Str(counter)
                           \o <<")">> \o extension,
                       counter + 1, base_name, extension)
    ELSE new_filename

RECURSIVE Probe(_, _, _, _)
\* the while loop of rename_if_exists
Probe(new_filename, counter, base_name, extension) ==
    IF Exists(new_filename)
    THEN Probe(base_name \o <<"(">> \o Str(counter) \o <<")">> \o extension,
               counter + 1, base_name, extension)
    ELSE new_filename

\* a rename that takes the first candidate without probing it
rename_first_candidate(filename) ==
    LET parts == SplitExt(filename)
    IN  remove_number_suffix(parts[1]) \o <<"(", "1", ")">> \o parts[2]

\* MediaGatherer.rename_if_exists
rename_if_exists(filename) ==
    LET parts == SplitExt(filename)
    IN  Probe(filename, 1, remove_number_suffix(parts[1]), parts[2])

\* a resolver that never looks at the destination
handle_file_conflict_blind(destination_path) == destination_path

\* MediaGatherer.handle_file_conflict
handle_file_conflict(destination_path) ==
    IF Exists(destination_path) THEN rename_if_exists(destination_path)
    ELSE destination_path

\* MediaGatherer.get_files_to_move
get_files_to_move(move_all_files) ==
    SelectSeq(file_stats,
              LAMBDA stat : move_all_files \/ is_media_file(stat.FileName, media_extensions))

\* source_path / destination_path of the move loop
SourcePath(file_stat)            == Join(file_stat.SourceFolder, file_stat.FileName)
DestinationPath(dest, file_stat) == Join(dest, file_stat.FileName)

\* a loop without the same-path test
IsNoOpNever(source_path, destination_path) == FALSE

\* the test  source_path == destination_path  that skips a record
IsNoOp(source_path, destination_path) == source_path = destination_path

\* a move that ignores the resolved name and lands on the source's own name
ShutilMoveUnresolved(f, src, dst) ==
    [p \in (DOMAIN f \ {src}) \cup {Join(DirName(dst), BaseName(src))} |->
        IF p = Join(DirName(dst), BaseName(src)) THEN f[src] ELSE f[p]]

\* shutil.move(src, dst) of a regular file onto a path in an existing
\* directory: the inode leaves src and is at dst, replacing what was there
ShutilMove(f, src, dst) ==
    [p \in (DOMAIN f \ {src}) \cup {dst} |-> IF p = dst THEN f[src] ELSE f[p]]

\* a mapping that is rebuilt for every move
RecordMoveReset(m, source_path, destination_path) ==
    [p \in {source_path} |-> destination_path]

\* self.moved_files[source_path] = destination_path
RecordMove(m, source_path, destination_path) ==
    [p \in DOMAIN m \cup {source_path} |->
        IF p = source_path THEN destination_path ELSE m[p]]

\* os.makedirs(d): d and every missing ancestor
MakeDirs(d) ==
    {SubSeq(d, 1, n) : n \in {h \in 1..Len(d) : h = Len(d) \/ d[h + 1] = "/"}}

\* the destinations a caller passes to a move
RunDestinations == {dest_folder, DirA}

\* entry of move_files_to_destination(files, dest): create_media_folder,
\* then the empty-input return, else the loop starts
EnterMove(files, dest) ==
    /\ IF Exists(dest)
       THEN UNCHANGED <<dirs, dest_folder>>
       ELSE /\ dirs' = dirs \cup MakeDirs(dest)
            /\ dest_folder' = dest
    /\ batch' = files
    /\ k' = 1
    /\ pc' = IF files = <<>> THEN "returned" ELSE "moving"

\* a scanned file is deleted by someone else before the move starts
Vanish(p) ==
    /\ pc = "ready"
    /\ vanished < MaxVanish
    /\ p \in DOMAIN fs
    /\ \E n \in 1..Len(file_stats) : SourcePath(file_stats[n]) = p
    /\ fs' = [q \in DOMAIN fs \ {p} |-> fs[q]]
    /\ vanished' = vanished + 1
    /\ UNCHANGED <<dirs, pc, root_folder, media_extensions, all_files, skip_folders,
                   file_stats, scanError, moved_files, dest_folder, runVars, ghostVars,
                   denied>>
    /\ UNCHANGED reportVars

\* the bookkeeping shared by the three ways to start a move run
StartRun(files, dest, size) ==
    /\ files_to_move' = files
    /\ destination_folder' = dest
    /\ batch_size' = size
    /\ i' = 0
    /\ fs0' = fs
    /\ UNCHANGED <<fs, root_folder, media_extensions, all_files, skip_folders,
                   file_stats, scanError, moved_files, attempts, failed, movedOrder,
                   sleeps, denied, vanished>>

\* gatherer.move_files_to_destination(get_files_to_move(move_all), dest)
CallMoveFiles(dest, move_all) ==
    /\ pc = "ready"
    /\ StartRun(get_files_to_move(move_all), dest, 0)
    /\ EnterMove(get_files_to_move(move_all), dest)
    /\ UNCHANGED batches
    /\ UNCHANGED reportVars

\* gatherer._batch_move_files(get_files_to_move(move_all), dest, batch_size=size)
CallBatchMove(dest, move_all, size) ==
    /\ pc = "ready"
    /\ StartRun(get_files_to_move(move_all), dest, size)
    /\ pc' = "batchloop"
    /\ UNCHANGED <<dirs, dest_folder, batch, k, batches>>
    /\ UNCHANGED reportVars

\* a gather_media that batches from 100 records on
GatherMediaInclusive(dest, move_all, size) ==
    LET destination == IF dest = None THEN dest_folder ELSE dest
        files       == get_files_to_move(all_files \/ move_all)
    IN  /\ pc = "ready"
        /\ IF Len(file_stats) >= BatchThreshold
           THEN /\ StartRun(files, destination, size)
                /\ pc' = "batchloop"
                /\ UNCHANGED <<dirs, dest_folder, batch, k, batches>>
           ELSE /\ StartRun(files, destination, 0)
                /\ EnterMove(files, destination)
                /\ UNCHANGED batches
        /\ UNCHANGED reportVars

\* MediaGatherer.gather_media(destination_folder=dest, move_all, batch_size=size)
GatherMedia(dest, move_all, size) ==
    LET destination == IF dest = None THEN dest_folder ELSE dest
        files       == get_files_to_move(all_files \/ move_all)
    IN  /\ pc = "ready"
        /\ IF Len(file_stats) > BatchThreshold
           THEN /\ StartRun(files, destination, size)
                /\ pc' = "batchloop"
                /\ UNCHANGED <<dirs, dest_folder, batch, k, batches>>
           ELSE /\ StartRun(files, destination, 0)
                /\ EnterMove(files, destination)
                /\ UNCHANGED batches
        /\ UNCHANGED reportVars

\* _batch_move_files: one iteration of  for i in range(0, len, batch_size)
\* up to the call of move_files_to_destination on the slice
BatchStart ==
    /\ pc = "batchloop"
    /\ i < Len(files_to_move)
    /\ EnterMove(Slice(files_to_move, i, i + batch_size), destination_folder)
    /\ batches' = batches + 1
    /\ UNCHANGED <<fs, root_folder, media_extensions, all_files, skip_folders,
                   file_stats, scanError, moved_files, files_to_move,
                   destination_folder, batch_size, i, fs0, attempts, failed,
                   movedOrder, sleeps, denied, vanished>>
    /\ UNCHANGED reportVars

\* _batch_move_files: the range is exhausted
BatchLoopExit ==
    /\ pc = "batchloop"
    /\ i >= Len(files_to_move)
    /\ pc' = "done"
    /\ UNCHANGED <<fs, dirs, collectorVars, moved_files, runVars, ghostVars,
                   denied, vanished>>
    /\ UNCHANGED reportVars

\* move loop: source_path == destination_path, continue
MoveSkip ==
    /\ pc = "moving"
    /\ k <= Len(batch)
    /\ IsNoOp(SourcePath(batch[k]), DestinationPath(destination_folder, batch[k]))
    /\ k' = k + 1
    /\ attempts' = Append(attempts, batch[k])
    /\ UNCHANGED <<fs, dirs, pc, collectorVars, moved_files, files_to_move,
                   destination_folder, batch_size, i, batch, fs0, failed, movedOrder,
                   sleeps, batches, denied, vanished>>
    /\ UNCHANGED reportVars

\* move loop: conflict resolution, shutil.move succeeds, the mapping grows
MoveOk ==
    LET source_path      == SourcePath(batch[k])
        destination_path == handle_file_conflict(
                                DestinationPath(destination_folder, batch[k]))
    IN  /\ pc = "moving"
        /\ k <= Len(batch)
        /\ ~IsNoOp(source_path, DestinationPath(destination_folder, batch[k]))
        /\ source_path \in DOMAIN fs
        /\ fs' = ShutilMove(fs, source_path, destination_path)
        /\ moved_files' = RecordMove(moved_files, source_path, destination_path)
        /\ movedOrder' = Append(movedOrder, destination_path)
        /\ k' = k + 1
        /\ attempts' = Append(attempts, batch[k])
        /\ UNCHANGED <<dirs, pc, collectorVars, files_to_move, destination_folder,
                       batch_size, i, batch, fs0, failed, sleeps, batches, denied,
                       vanished>>
        /\ UNCHANGED reportVars

\* a loop that records the mapping before it moves, so a failed move
\* leaves an entry behind
MoveFailRecorded ==
    LET source_path == SourcePath(batch[k])
    IN  /\ pc = "moving"
        /\ k <= Len(batch)
        /\ ~IsNoOp(source_path, DestinationPath(destination_folder, batch[k]))
        /\ \/ /\ source_path \notin DOMAIN fs
              /\ UNCHANGED denied
           \/ /\ source_path \in DOMAIN fs
              /\ denied < MaxDenied
              /\ denied' = denied + 1
        /\ moved_files' = RecordMove(moved_files, source_path,
                                     DestinationPath(destination_folder, batch[k]))
        /\ failed' = failed \cup {source_path}
        /\ attempts' = Append(attempts, batch[k])
        /\ pc' = "returned"
        /\ UNCHANGED <<fs, dirs, collectorVars, runVars, fs0,
                       movedOrder, sleeps, batches, vanished>>
        /\ UNCHANGED reportVars

\* move loop: shutil.move raises (the source is gone, or the OS refuses);
\* the except clause around the whole loop prints and the function returns
MoveFail ==
    LET source_path == SourcePath(batch[k])
    IN  /\ pc = "moving"
        /\ k <= Len(batch)
        /\ ~IsNoOp(source_path, DestinationPath(destination_folder, batch[k]))
        /\ \/ /\ source_path \notin DOMAIN fs
              /\ UNCHANGED denied
           \/ /\ source_path \in DOMAIN fs
              /\ denied < MaxDenied
              /\ denied' = denied + 1
        /\ failed' = failed \cup {source_path}
        /\ attempts' = Append(attempts, batch[k])
        /\ pc' = "returned"
        /\ UNCHANGED <<fs, dirs, collectorVars, moved_files, runVars, fs0,
                       movedOrder, sleeps, batches, vanished>>
        /\ UNCHANGED reportVars

\* move loop exhausted: "Total Files Moved" is printed, the function returns
MoveLoopEnd ==
    /\ pc = "moving"
    /\ k > Len(batch)
    /\ out' = [op |-> "Total Files Moved", n |-> Len(batch)]
    /\ pc' = "returned"
    /\ UNCHANGED <<fs, dirs, collectorVars, moved_files, runVars, ghostVars,
                   denied, vanished>>
    /\ UNCHANGED <<tasks, results>>

\* _batch_move_files after the call returned: print, sleep(delay), next i
BatchSleep ==
    /\ pc = "returned"
    /\ batch_size > 0
    /\ sleeps' = sleeps + 1
    /\ i' = i + batch_size
    /\ pc' = "batchloop"
    /\ UNCHANGED <<fs, dirs, collectorVars, moved_files, files_to_move,
                   destination_folder, batch_size, batch, k, fs0, attempts, failed,
                   movedOrder, batches, denied, vanished>>
    /\ UNCHANGED reportVars

\* an unbatched move_files_to_destination call returned to its caller
MoveReturn ==
    /\ pc = "returned"
    /\ batch_size = 0
    /\ pc' = "done"
    /\ UNCHANGED <<fs, dirs, collectorVars, moved_files, runVars, ghostVars,
                   denied, vanished>>
    /\ UNCHANGED reportVars

RECURSIVE SumSlice(_, _, _, _)
\* the sizes on file system f of paths[lo..hi] added up, by halves
SumSlice(f, paths, lo, hi) ==
    IF lo > hi THEN 0
    ELSE IF lo = hi THEN SizeOf(f[paths[lo]])
    ELSE SumSlice(f, paths, lo, (lo + hi) \div 2)
             + SumSlice(f, paths, (lo + hi) \div 2 + 1, hi)

\* sum(os.path.getsize(file) for file in ...) on file system f
SumSizes(f, P) ==
    SumSlice(f,
             [n \in 1..Cardinality(P) |->
                 CHOOSE p \in P : Cardinality({q \in P : f[q] < f[p]}) = n - 1],
             1, Cardinality(P))

\* what show_moved_stats prints for mapping m on file system f
MovedStats(f, m) ==
    IF \A s \in DOMAIN m : m[s] \in DOMAIN f
    THEN [op |-> "Total Moved Files",
          total_files |-> Cardinality(DOMAIN m),
          total_size  |-> SumSizes(f, {m[s] : s \in DOMAIN m})]
    ELSE [op |-> "Error displaying stats"]

\* MediaGatherer.show_moved_stats after a run; getsize of a missing file
\* raises and the except clause prints instead
ShowMovedStats ==
    /\ pc = "done"
    /\ out' = MovedStats(fs, moved_files)
    /\ pc' = "shown"
    /\ UNCHANGED <<fs, dirs, collectorVars, moved_files, runVars, ghostVars,
                   denied, vanished, tasks, results>>

Init ==
    /\ \E S \in SUBSET OptionalFiles : fs = FsOf(FixedFiles \cup S)
    /\ dirs = {RootR, DirA, DirB, DirD}
    /\ pc = "init"
    /\ root_folder = <<>>
    /\ media_extensions = <<>>
    /\ all_files = FALSE
    /\ skip_folders = <<>>
    /\ file_stats = <<>>
    /\ moved_files = EmptyMap
    /\ dest_folder = <<>>
    /\ scanError = FALSE
    /\ files_to_move = <<>>
    /\ destination_folder = <<>>
    /\ batch_size = 0
    /\ i = 0
    /\ batch = <<>>
    /\ k = 0
    /\ fs0 = fs
    /\ attempts = <<>>
    /\ failed = {}
    /\ movedOrder = <<>>
    /\ sleeps = 0
    /\ batches = 0
    /\ denied = 0
    /\ vanished = 0
    /\ tasks = <<>>
    /\ results = <<>>
    /\ out = NoReport

Construct ==
    /\ pc = "init"
    /\ \E root \in RootChoices, all \in BOOLEAN, skips \in SkipChoices :
        \/ \E fail \in ScanFailures(root, skips) :
               NewFileStatsCollector(root, all, skips, fail)
        \/ \E dest \in DestChoices :
               LET destination == IF dest = None THEN Join(root, <<"m">>) ELSE dest
               IN  \E fail \in ScanFailures(root, Append(skips, destination)) :
                       NewMediaGatherer(root, dest, all, skips, fail)

StartMove ==
    \E dest \in RunDestinations, move_all \in BOOLEAN :
        \/ CallMoveFiles(dest, move_all)
        \/ \E size \in 1..MaxBatchSize : CallBatchMove(dest, move_all, size)
        \/ \E size \in 1..MaxBatchSize : GatherMedia(dest, move_all, size)
        \/ \E size \in 1..MaxBatchSize : GatherMedia(None, move_all, size)

Next ==
    \/ Construct
    \/ \E p \in DOMAIN fs : Vanish(p)
    \/ StartMove
    \/ BatchStart
    \/ BatchLoopExit
    \/ MoveSkip
    \/ MoveOk
    \/ MoveFail
    \/ MoveLoopEnd
    \/ BatchSleep
    \/ MoveReturn
    \/ ShowMovedStats

Spec == Init /\ [][Next]_vars

\* ------------------------------------------------------------- properties
InRun == pc \in {"batchloop", "moving", "returned", "done"}

\* x(n).j
XName(n) == <<"x", "(">> \o Str(n) \o <<")", ".", "j">>

Range(f) == {f[x] : x \in DOMAIN f}

\* C1: when a move run is over, every input record that was at its source
\* when the run started, is not a no-op and did not itself fail to move has
\* been moved and is a key of moved_files, also when another record of the
\* same batch failed before it.
C1_FailureIsolated ==
    pc = "done" =>
        \A n \in 1..Len(files_to_move) :
            LET s == SourcePath(files_to_move[n])
            IN  ( /\ s \in DOMAIN fs0
                  /\ s \notin failed
                  /\ s # DestinationPath(destination_folder, files_to_move[n]) )
                => s \in DOMAIN moved_files

\* C2: no step replaces the content of a path that exists, the destination
\* recorded by a move did not exist when the move was made, and the values of
\* moved_files are pairwise distinct.
C2_NoOverwrite ==
    /\ [](\A s, t \in DOMAIN moved_files :
              moved_files[s] = moved_files[t] => s = t)
    /\ [][ /\ \A p \in DOMAIN fs \cap DOMAIN fs' : fs'[p] = fs[p]
           /\ \A s \in DOMAIN moved_files' \ DOMAIN moved_files :
                  /\ moved_files'[s] \notin DOMAIN fs
                  /\ moved_files'[s] \notin dirs ]_vars

C2_Witness ==
    /\ pc = "done"
    /\ Join(destination_folder, NameX) \in DOMAIN fs0
    /\ Cardinality(DOMAIN moved_files) >= 2
    /\ fs[Join(destination_folder, NameX)] = fs0[Join(destination_folder, NameX)]

\* C3: in a run whose destination held x.j and no x(n).j when it started and
\* whose records are all named x.j, the j-th successful move ends at x(j).j,
\* so no stacked name such as x(1)(1).j is produced.
C3_SuffixSequence ==
    ( /\ InRun
      /\ Join(destination_folder, NameX) \in DOMAIN fs0
      /\ \A n \in 1..Len(files_to_move) :
             /\ files_to_move[n].FileName = NameX
             /\ Join(destination_folder, XName(n)) \notin DOMAIN fs0 )
    => \A j \in 1..Len(movedOrder) :
           movedOrder[j] = Join(destination_folder, XName(j))

C3_Witness ==
    /\ pc = "done"
    /\ Join(destination_folder, NameX) \in DOMAIN fs0
    /\ \A n \in 1..Len(files_to_move) :
           /\ files_to_move[n].FileName = NameX
           /\ Join(destination_folder, XName(n)) \notin DOMAIN fs0
    /\ Len(movedOrder) = 2
    /\ movedOrder[2] = Join(destination_folder, XName(2))

\* the destination paths a move of the model can ask for
ProbePaths ==
    {Join(d, n) : d \in {DirA, DirD, Join(RootR, <<"m">>)},
                  n \in {NameX, NameX1, NameB}}

\* C4: in every state, handle_file_conflict(p) is p when p does not exist,
\* and is a path that does not exist and differs from p when p exists.
C4_ResolveContract ==
    \A p \in ProbePaths :
        LET q == handle_file_conflict(p)
        IN  /\ ~Exists(p) => q = p
            /\ Exists(p) => (~Exists(q) /\ q # p)

C4_Witness ==
    /\ pc = "moving"
    /\ Exists(Join(destination_folder, NameX))
    /\ Exists(Join(destination_folder, NameX1))
    /\ handle_file_conflict(Join(destination_folder, NameX))
         = Join(destination_folder, XName(2))
    /\ ~Exists(Join(destination_folder, NameB))
    /\ \E s \in DOMAIN moved_files : moved_files[s] = Join(destination_folder, NameX1)

\* C5: during a move run the keys of moved_files are exactly the source paths
\* of the input records whose file has left its source, each value is the path
\* that now holds that file, every other file is where it was, failed and
\* skipped records have no entry, there is one entry per successful move, and
\* no step removes or changes an entry.
C5_MappingExact ==
    /\ [](InRun =>
            /\ \A s \in DOMAIN moved_files :
                   /\ \E n \in 1..Len(files_to_move) : SourcePath(files_to_move[n]) = s
                   /\ s \in DOMAIN fs0
                   /\ s \notin DOMAIN fs
                   /\ moved_files[s] \in DOMAIN fs
                   /\ fs[moved_files[s]] = fs0[s]
                   /\ s \notin failed
                   /\ BaseName(s) # BaseName(moved_files[s])
                        => Exists(Join(destination_folder, BaseName(s)))
            /\ \A p \in DOMAIN fs0 \ DOMAIN moved_files :
                   p \in DOMAIN fs /\ fs[p] = fs0[p]
            /\ Cardinality(DOMAIN moved_files) = Len(movedOrder)
            /\ Range(moved_files) = Range(movedOrder))
    /\ [][\A s \in DOMAIN moved_files :
              s \in DOMAIN moved_files' /\ moved_files'[s] = moved_files[s]]_vars

C5_Witness ==
    /\ pc = "done"
    /\ batch_size = 1
    /\ failed # {}
    /\ Cardinality(DOMAIN moved_files) >= 2
    /\ \E s \in DOMAIN moved_files : BaseName(s) # BaseName(moved_files[s])

\* C6: when a batched move is over, the records the move loop reached are
\* the input records, each once and in input order.
C6_EveryRecordAttempted ==
    (pc = "done" /\ batch_size > 0) => attempts = files_to_move

\* C7: when a batched move of n >= 1 batches is over, n - 1 delays were made.
C7_NoDelayAfterLastBatch ==
    (pc = "done" /\ batch_size > 0 /\ batches >= 1) => sleeps = batches - 1

\* C8: a step of the move loop on a record whose source path is its desired
\* destination path changes neither the file system nor moved_files, records
\* no failure, and leaves the loop at the next record.
C8_SamePathSkipped ==
    [][ ( /\ pc = "moving"
          /\ k <= Len(batch)
          /\ SourcePath(batch[k]) = Join(destination_folder, batch[k].FileName) )
        => ( /\ fs' = fs
             /\ dirs' = dirs
             /\ moved_files' = moved_files
             /\ failed' = failed
             /\ pc' = "moving"
             /\ batch' = batch
             /\ k' = k + 1 ) ]_vars

C8_Witness ==
    /\ pc = "done"
    /\ \E n \in 1..Len(attempts) :
           /\ SourcePath(attempts[n]) = Join(destination_folder, attempts[n].FileName)
           /\ SourcePath(attempts[n]) \in DOMAIN fs
           /\ SourcePath(attempts[n]) \notin DOMAIN moved_files
           /\ \E h \in (n + 1)..Len(attempts) :
                  SourcePath(attempts[h]) \in DOMAIN moved_files

\* C9: a collector exists only for a root that is a directory: construction
\* with a root that is missing or is not a directory raises.
C9_RootMustBeDirectory ==
    pc \in {"scanned", "ready"} => root_folder \in dirs

\* the paths of the records of the scan, and whether each occurs once
RecordPaths == {SourcePath(file_stats[n]) : n \in 1..Len(file_stats)}
RecordsAre(S) == RecordPaths = S /\ Len(file_stats) = Cardinality(S)

Scanned == pc \in {"scanned", "ready"} /\ vanished = 0 /\ ~scanError

\* C10 as stated: with all_files the records are the files under root whose
\* own path contains no skip entry.
C10_FilePathFilter ==
    (Scanned /\ all_files) =>
        RecordsAre({p \in DOMAIN fs :
                       /\ root_folder \in dirs
                       /\ IsUnder(root_folder, DirName(p))
                       /\ \A s \in 1..Len(skip_folders) : ~Contains(skip_folders[s], p)})

\* C10: with all_files and no error during the scan, the records are, each
\* once, the files under root whose directory path contains no skip entry.
C10_FolderPathFilter ==
    (Scanned /\ all_files) =>
        RecordsAre({p \in DOMAIN fs :
                       /\ root_folder \in dirs
                       /\ IsUnder(root_folder, DirName(p))
                       /\ \A s \in 1..Len(skip_folders) :
                              ~Contains(skip_folders[s], DirName(p))})

C10_Witness ==
    /\ pc = "ready"
    /\ Scanned
    /\ all_files
    /\ Join(DirA, NameB) \in RecordPaths
    /\ Join(DirB, NameX) \in DOMAIN fs
    /\ Join(DirB, NameX) \notin RecordPaths
    /\ \E s \in 1..Len(skip_folders) : Contains(skip_folders[s], Join(DirA, NameB))


\* the records a fresh collector finds in the destination with all_files=true
Rescan == gather_file_stats(destination_folder, <<>>, TRUE, media_extensions, NoFailure)

\* the size the scan recorded for source path s
RecordedSize(s) ==
    LET n == CHOOSE c \in 1..Len(file_stats) : SourcePath(file_stats[c]) = s
    IN  file_stats[n].FileSize

\* C15: when a run is over, every value of moved_files is an existing file
\* holding the content that was at its source and of the size the scan
\* recorded; a re-scan of the destination with all_files finds it once, under
\* the base name of that value and with that size, and finds nothing but the
\* moved files and the files that were in the destination before.
C15_RoundTrip ==
    pc = "done" =>
        /\ \A s \in DOMAIN moved_files :
               LET v == moved_files[s]
               IN  /\ v \in DOMAIN fs
                   /\ fs[v] = fs0[s]
                   /\ SizeOf(fs[v]) = RecordedSize(s)
                   /\ Cardinality({j \in 1..Len(Rescan) :
                          /\ Rescan[j].FileName = BaseName(v)
                          /\ Rescan[j].SourceFolder = destination_folder
                          /\ Rescan[j].FileSize = RecordedSize(s)}) = 1
        /\ {SourcePath(Rescan[j]) : j \in 1..Len(Rescan)}
             = ({p \in DOMAIN fs0 : IsUnder(destination_folder, DirName(p))}
                    \ DOMAIN moved_files)
               \cup Range(moved_files)
        /\ Len(Rescan) = Cardinality({SourcePath(Rescan[j]) : j \in 1..Len(Rescan)})

\* two files were moved, one of them under a new name
C15_Witness ==
    /\ pc = "done"
    /\ Cardinality(DOMAIN moved_files) >= 2
    /\ \E s \in DOMAIN moved_files : BaseName(moved_files[s]) # BaseName(s)
    /\ \E s \in DOMAIN moved_files : BaseName(moved_files[s]) = BaseName(s)

\* C16 as stated: the number of moved files a run reports is the number of
\* files relocated, the size of moved_files, also when a record was skipped
\* (read for the single unbatched call of a fresh gatherer, and for the
\* summary of show_moved_stats).
C16_CountsReflectReality ==
    /\ (out.op = "Total Files Moved" /\ batch_size = 0) =>
           out.n = Cardinality(DOMAIN moved_files)
    /\ out.op = "Total Moved Files" =>
           out.total_files = Cardinality(DOMAIN moved_files)

\* ------------------------------------------- the scan, one pool task a step
\* a second tree: root r holds a.m and b.t, the folder r/s holds c.m and the
\* subfolder r/s/u, r/e is empty ('.mp3' is ".m", 'skip_me' is "s")
DirS   == <<"r", "/", "s">>
DirU   == <<"r", "/", "s", "/", "u">>
DirE   == <<"r", "/", "e">>
NameAM == <<"a", ".", "m">>
NameBT == <<"b", ".", "t">>
NameCM == <<"c", ".", "m">>
NameDM == <<"d", ".", "m">>
NameEM == <<"E", ".", "M">>          \* an upper-case name and extension
NameDotM == <<".", "m">>             \* a file whose whole name is ".m"

ScanFixedFiles    == { <<Join(RootR, NameAM), 1>>, <<Join(RootR, NameBT), 2>>,
                       <<Join(DirS, NameCM), 3>> }
ScanOptionalFiles == { <<Join(DirU, NameDM), 4>>, <<Join(RootR, NameDotM), 5>>,
                       <<Join(RootR, NameEM), 8>> }

\* the explicit extension list ['.mp3'] and the skip lists of a caller: none,
\* ['skip_me'], and [''] (the entry a gatherer appends when the user of
\* testing.py leaves the destination empty)
ScanExtensions  == << <<".", "m">> >>
ScanSkipChoices == { <<>>, << <<"s">> >>, << <<>> >> }
ScanRootChoices == { RootR, DirE, RootQ }

\* a pool task that has not returned yet
Pending == [stats |-> <<>>, failAt |-> -1]

\* a map that hands back whatever has been computed so far
AllDoneAlways(res) == TRUE

\* pool.starmap returns when every call has returned
AllDone(res) == \A n \in 1..Len(res) : res[n].failAt # -1

RECURSIVE Flatten(_)
\* [file_stat for folder_stats in folder_stats_lists for file_stat in folder_stats]
Flatten(res) ==
    IF res = <<>> THEN <<>> ELSE Head(res).stats \o Flatten(Tail(res))

InitScan ==
    /\ \E S \in SUBSET ScanOptionalFiles : fs = FsOf(ScanFixedFiles \cup S)
    /\ dirs = {RootR, DirS, DirU, DirE}
    /\ pc = "init"
    /\ root_folder = <<>>
    /\ media_extensions = <<>>
    /\ all_files = FALSE
    /\ skip_folders = <<>>
    /\ file_stats = <<>>
    /\ moved_files = EmptyMap
    /\ dest_folder = <<>>
    /\ scanError = FALSE
    /\ files_to_move = <<>>
    /\ destination_folder = <<>>
    /\ batch_size = 0
    /\ i = 0
    /\ batch = <<>>
    /\ k = 0
    /\ fs0 = fs
    /\ attempts = <<>>
    /\ failed = {}
    /\ movedOrder = <<>>
    /\ sleeps = 0
    /\ batches = 0
    /\ denied = 0
    /\ vanished = 0
    /\ tasks = <<>>
    /\ results = <<>>
    /\ out = NoReport

moveVars == <<moved_files, dest_folder, runVars, ghostVars, denied, vanished>>

\* FileStatsCollector.__init__ up to the call of pool.starmap: the root check,
\* the field assignments, os.walk and the skip filter
ScanStart(root, exts, all, skips) ==
    /\ pc = "init"
    /\ IF check_root_folder(root)
       THEN /\ root_folder' = root
            /\ media_extensions' = exts
            /\ all_files' = all
            /\ skip_folders' = skips
            /\ tasks' = ScannedFolders(root, skips)
            /\ results' = [n \in 1..Len(ScannedFolders(root, skips)) |-> Pending]
            /\ pc' = "scanning"
       ELSE /\ pc' = "raised"
            /\ UNCHANGED <<root_folder, media_extensions, all_files, skip_folders,
                           tasks, results>>
    /\ UNCHANGED <<fs, dirs, file_stats, scanError, moveVars, out>>

\* a pool worker runs process_files on task n; failAt > 0: it raises at that entry
WorkerRun(n, failAt) ==
    /\ pc = "scanning"
    /\ n \in 1..Len(tasks)
    /\ results[n] = Pending
    /\ failAt <= Len(Listing(tasks[n])) \/ failAt = 1
    /\ results' = [results EXCEPT ![n] =
                      [stats  |-> process_files(tasks[n], all_files, media_extensions, failAt),
                       failAt |-> failAt]]
    /\ scanError' = (scanError \/ failAt # 0)
    /\ UNCHANGED <<fs, dirs, pc, root_folder, media_extensions, all_files, skip_folders,
                   file_stats, tasks, moveVars, out>>

\* the pool itself raises: folder_stats_lists is never bound, the except
\* clause of _gather_file_stats prints, file_stats stays []
PoolFail ==
    /\ pc = "scanning"
    /\ results' = <<>>
    /\ file_stats' = <<>>
    /\ scanError' = TRUE
    /\ pc' = "scanned"
    /\ UNCHANGED <<fs, dirs, root_folder, media_extensions, all_files, skip_folders,
                   tasks, moveVars, out>>

\* starmap has returned: the lists are flattened in task order
Merge ==
    /\ pc = "scanning"
    /\ AllDone(results)
    /\ file_stats' = Flatten(results)
    /\ pc' = "scanned"
    /\ UNCHANGED <<fs, dirs, root_folder, media_extensions, all_files, skip_folders,
                   scanError, tasks, results, moveVars, out>>

\* the inode of a file that open(csv_file_path, 'w') creates
CsvInode == 9

NameCsv == <<"f", ".", "c">>

\* the generated <root basename>_files_stats_<time>.csv
DefaultCsvName(root) == BaseName(root) \o <<"_">> \o NameCsv

\* a generator that never takes the early return
NoDataNever(stats) == FALSE

\* if not self.file_stats: return -1
NoData(stats) == stats = <<>>

\* open(path, 'w') succeeds: the directory exists and path is no directory
CanOpenForWrite(path) == DirName(path) \in dirs /\ path \notin dirs

\* the csv_path arguments of a caller: None, a file in the root, a file in a
\* missing folder, the root folder itself
CsvPathChoices == {None, Join(root_folder, NameCsv), Join(RootQ, NameCsv), root_folder}

\* FileStatsCollector.generate_file_stats_csv
GenerateFileStatsCsv(csv_path) ==
    LET csv_file_path == IF csv_path = None
                         THEN Join(root_folder, DefaultCsvName(root_folder))
                         ELSE csv_path
    IN  /\ pc = "scanned"
        /\ IF NoData(file_stats)
           THEN /\ out' = [op |-> "csv", path |-> csv_file_path, ret |-> -1]
                /\ UNCHANGED fs
           ELSE /\ out' = [op |-> "csv", path |-> csv_file_path, ret |-> 0]
                /\ IF CanOpenForWrite(csv_file_path)
                   THEN fs' = [p \in DOMAIN fs \cup {csv_file_path} |->
                                  IF p = csv_file_path THEN CsvInode ELSE fs[p]]
                   ELSE UNCHANGED fs
        /\ pc' = "reported"
        /\ UNCHANGED <<dirs, root_folder, media_extensions, all_files, skip_folders,
                       file_stats, scanError, tasks, results, moveVars>>

NextScan ==
    \/ \E root \in ScanRootChoices, all \in BOOLEAN, skips \in ScanSkipChoices :
           ScanStart(root, ScanExtensions, all, skips)
    \/ \E n \in 1..Len(tasks), failAt \in 0..3 : WorkerRun(n, failAt)
    \/ PoolFail
    \/ Merge
    \/ \E csv_path \in CsvPathChoices : GenerateFileStatsCsv(csv_path)

SpecScan == InitScan /\ [][NextScan]_vars

\* ------------------------------------------------ reports over a record list
\* the records a scan can have produced: both types, a size at the lower
\* limit of every range of the size distribution and one just below a limit
StatChoices ==
    { [FileName |-> NameX, FileType |-> <<".", "j">>, FileSize |-> 0,         SourceFolder |-> RootR],
      [FileName |-> NameB, FileType |-> <<".", "t">>, FileSize |-> 1023,      SourceFolder |-> RootR],
      [FileName |-> NameX, FileType |-> <<".", "j">>, FileSize |-> 1024,      SourceFolder |-> DirA],
      [FileName |-> NameB, FileType |-> <<".", "t">>, FileSize |-> 102400,    SourceFolder |-> DirA],
      [FileName |-> NameX, FileType |-> <<".", "j">>, FileSize |-> 1048576,   SourceFolder |-> DirB],
      [FileName |-> NameB, FileType |-> <<".", "t">>, FileSize |-> 10485760,  SourceFolder |-> DirB],
      [FileName |-> NameX, FileType |-> <<".", "j">>, FileSize |-> 104857600, SourceFolder |-> DirD],
      [FileName |-> NameB, FileType |-> <<".", "t">>, FileSize |-> 524288000, SourceFolder |-> DirD] }

\* size_ranges of show_file_size_distribution, in definition order; the
\* last range ends at float('inf')
SizeRanges ==
    << [label |-> "0-1KB",      lo |-> 0,                  hi |-> 1024,               inf |-> FALSE],
       [label |-> "1KB-100KB",  lo |-> 1024,               hi |-> 1024 * 100,         inf |-> FALSE],
       [label |-> "100KB-1MB",  lo |-> 1024 * 100,         hi |-> 1024 * 1024,        inf |-> FALSE],
       [label |-> "1MB-10MB",   lo |-> 1024 * 1024,        hi |-> 1024 * 1024 * 10,   inf |-> FALSE],
       [label |-> "10MB-100MB", lo |-> 1024 * 1024 * 10,   hi |-> 1024 * 1024 * 100,  inf |-> FALSE],
       [label |-> "100MB+",     lo |-> 1024 * 1024 * 100,  hi |-> 1024 * 1024 * 500,  inf |-> FALSE],
       [label |-> "500MB+",     lo |-> 1024 * 1024 * 500,  hi |-> 0,                  inf |-> TRUE] >>

\* a test that leaves out the lower limit
InRangeOpen(file_size, range) ==
    range.lo < file_size /\ (range.inf \/ file_size < range.hi)

\* min_size <= file_size < max_size
InRange(file_size, range) ==
    range.lo <= file_size /\ (range.inf \/ file_size < range.hi)

\* the range whose counter the inner loop increments before it breaks, 0: none
FirstRange(file_size) ==
    LET hits == {b \in 1..Len(SizeRanges) : InRange(file_size, SizeRanges[b])}
    IN  IF hits = {} THEN 0 ELSE CHOOSE b \in hits : \A c \in hits : b <= c

\* size_distribution after the loop over file_stats
size_distribution(stats) ==
    [b \in 1..Len(SizeRanges) |->
        Cardinality({n \in 1..Len(stats) : FirstRange(stats[n].FileSize) = b})]

\* FileStatsCollector.show_file_size_distribution
ShowFileSizeDistribution ==
    /\ pc = "scanned"
    /\ out' = [op |-> "File Size Distribution", counts |-> size_distribution(file_stats)]
    /\ pc' = "reported"
    /\ UNCHANGED <<fs, dirs, root_folder, media_extensions, all_files, skip_folders,
                   file_stats, scanError, tasks, results, moveVars>>

RECURSIVE TotalSize(_)
\* sum(stat['File Size (Bytes)'] for stat in self.file_stats)
TotalSize(stats) ==
    IF stats = <<>> THEN 0 ELSE Head(stats).FileSize + TotalSize(Tail(stats))

\* file_types.count(t)
TypeCount(stats, t) == Cardinality({n \in 1..Len(stats) : stats[n].FileType = t})

\* max(set(file_types), key=file_types.count): max keeps the first maximal
\* element of the iteration, and a set of strings iterates in hash order, so
\* any type of maximal count can come out
MostOccurring(stats) ==
    {t \in {stats[n].FileType : n \in 1..Len(stats)} :
        \A n \in 1..Len(stats) : TypeCount(stats, stats[n].FileType) <= TypeCount(stats, t)}

\* FileStatsCollector.get_summary_stats; avg_size is total_size / total_files
GetSummaryStats ==
    /\ pc = "scanned"
    /\ IF Len(file_stats) = 0
       THEN out' = [op |-> "summary", total_files |-> 0, total_folders |-> 0,
                    total_size |-> 0, avg_size |-> <<0, 1>>,
                    most_occurring_file_type |-> None]
       ELSE \E t \in MostOccurring(file_stats) :
                out' = [op |-> "summary",
                        total_files   |-> Len(file_stats),
                        total_folders |-> Cardinality({file_stats[n].SourceFolder :
                                                          n \in 1..Len(file_stats)}),
                        total_size    |-> TotalSize(file_stats),
                        avg_size      |-> <<TotalSize(file_stats), Len(file_stats)>>,
                        most_occurring_file_type |-> t]
    /\ pc' = "reported"
    /\ UNCHANGED <<fs, dirs, root_folder, media_extensions, all_files, skip_folders,
                   file_stats, scanError, tasks, results, moveVars>>

\* a byte count m * 1024^e, written <<m, e>> (1024^4 does not fit a
\* 32-bit integer); the mantissas stay below 1024 * 1024
SizeInputs ==
    { <<0, 0>>, <<512, 0>>, <<1023, 0>>, <<1024, 0>>, <<1029, 0>>, <<1536, 0>>,
      <<1048575, 0>>, <<1, 3>>, <<1023, 4>>, <<1536, 4>>, <<1, 5>>, <<3, 5>> }

Units == <<"B", "KB", "MB", "GB", "TB">>

RECURSIVE Pow1024(_)
Pow1024(n) == IF n = 0 THEN 1 ELSE 1024 * Pow1024(n - 1)

\* size < 1024.0 for size = m * 1024^x, x possibly negative
Below1024(m, x) ==
    \/ m = 0
    \/ x = 0 /\ m < 1024
    \/ x < 0 /\ (x < -1 \/ m < 1024 * 1024)

\* round(a / b, half to even), the rounding of "{:.2f}" on an exact quotient
RoundHalfEven(a, b) ==
    LET q == a \div b
        r == a % b
    IN  IF 2 * r > b \/ (2 * r = b /\ q % 2 = 1) THEN q + 1 ELSE q

\* "{:.2f}".format(m * 1024^x) in hundredths
Hundredths(m, x) ==
    IF x >= 0 THEN m * Pow1024(x) * 100 ELSE RoundHalfEven(m * 100, Pow1024(-x))

RECURSIVE FormatLoop(_, _, _)
\* the for loop of format_size at unit u (0-based) after u divisions: break,
\* or divide and go on; after the last unit the loop ends with unit 'TB'
\* and one more division
FormatLoop(m, e, u) ==
    IF Below1024(m, e - u) THEN [unit |-> u, divisions |-> u]
    ELSE IF u = Len(Units) - 1 THEN [unit |-> u, divisions |-> u + 1]
    ELSE FormatLoop(m, e, u + 1)

\* FileStatsCollector.format_size: the number in hundredths and the unit
format_size(size) ==
    LET end == FormatLoop(size[1], size[2], 0)
    IN  [hundredths |-> Hundredths(size[1], size[2] - end.divisions),
         unit       |-> Units[end.unit + 1]]

\* a call of format_size (process_files, print_summary_stats, show_moved_stats)
FormatSize(size) ==
    /\ pc = "scanned"
    /\ out' = [op |-> "format_size", size |-> size, text |-> format_size(size)]
    /\ pc' = "reported"
    /\ UNCHANGED <<fs, dirs, root_folder, media_extensions, all_files, skip_folders,
                   file_stats, scanError, tasks, results, moveVars>>

\* a collector whose scan of r has returned one of the bounded record lists
InitStats ==
    /\ fs = FsOf(FixedFiles)
    /\ dirs = {RootR, DirA, DirB, DirD}
    /\ pc = "scanned"
    /\ root_folder = RootR
    /\ media_extensions = DefaultMediaExtensions
    /\ all_files = TRUE
    /\ skip_folders = <<>>
    /\ \E n \in 0..MaxRecords : file_stats \in [1..n -> StatChoices]
    /\ moved_files = EmptyMap
    /\ dest_folder = <<>>
    /\ scanError = FALSE
    /\ files_to_move = <<>>
    /\ destination_folder = <<>>
    /\ batch_size = 0
    /\ i = 0
    /\ batch = <<>>
    /\ k = 0
    /\ fs0 = fs
    /\ attempts = <<>>
    /\ failed = {}
    /\ movedOrder = <<>>
    /\ sleeps = 0
    /\ batches = 0
    /\ denied = 0
    /\ vanished = 0
    /\ tasks = <<>>
    /\ results = <<>>
    /\ out = NoReport

NextStats ==
    \/ ShowFileSizeDistribution
    \/ GetSummaryStats
    \/ \E size \in SizeInputs : FormatSize(size)

SpecStats == InitStats /\ [][NextStats]_vars

\* ---------------------------------------------- properties of the reports
RECURSIVE SumTo(_, _)
SumTo(f, n) == IF n = 0 THEN 0 ELSE f[n] + SumTo(f, n - 1)

\* C17: the distribution counts every record in exactly one range, the first
\* range in definition order whose [lo, hi) holds its size, so with the
\* built-in ranges the counts add up to the number of records.
C17_OneBucketEach ==
    out.op = "File Size Distribution" =>
        /\ SumTo(out.counts, Len(SizeRanges)) = Len(file_stats)
        /\ \A b \in 1..Len(SizeRanges) :
               out.counts[b] = Cardinality(
                   {n \in 1..Len(file_stats) :
                       LET z == file_stats[n].FileSize
                           holds(c) == /\ SizeRanges[c].lo <= z
                                       /\ SizeRanges[c].inf \/ z < SizeRanges[c].hi
                       IN  holds(b) /\ \A c \in 1..(b - 1) : ~holds(c)})

\* three records, two of them at the limits 0 and 1024, in three ranges
C17_Witness ==
    /\ out.op = "File Size Distribution"
    /\ Len(file_stats) = 3
    /\ {file_stats[n].FileSize : n \in 1..3} = {0, 1024, 524288000}
    /\ out.counts[1] = 1 /\ out.counts[2] = 1 /\ out.counts[7] = 1

\* the type of maximal count that comes first in the record list
FirstMostOccurring(stats) ==
    LET best == {n \in 1..Len(stats) :
                    \A c \in 1..Len(stats) :
                        TypeCount(stats, stats[c].FileType) <= TypeCount(stats, stats[n].FileType)}
    IN  stats[CHOOSE n \in best : \A c \in best : n <= c].FileType

\* C18 as stated: get_summary_stats returns a type of maximal count and, on
\* a tie, the one met first in the record list.
C18_FirstOnTie ==
    (out.op = "summary" /\ file_stats # <<>>) =>
        /\ out.most_occurring_file_type \in MostOccurring(file_stats)
        /\ out.most_occurring_file_type = FirstMostOccurring(file_stats)

\* C19 as stated: the unit shown has index k, the number shown is the byte
\* count divided by 1024^k (to two decimals), and that quotient is below 1024.
C19_ScaledByUnit ==
    out.op = "format_size" =>
        LET mant  == out.size[1]
            expo  == out.size[2]
            index == (CHOOSE u \in 1..Len(Units) : Units[u] = out.text.unit) - 1
        IN  /\ out.text.hundredths = Hundredths(mant, expo - index)
            /\ Below1024(mant, expo - index)

\* ------------------------------------------------- properties of the scan
\* the scan has merged the lists of the pool (it did not end in PoolFail)
Merged == pc = "scanned" /\ results # <<>>

Matches(p) == all_files \/ is_media_file(BaseName(p), media_extensions)

\* the entries of task n that process_files reached before it raised, if it did
Reached(n) ==
    LET entries == Listing(tasks[n])
    IN  {entries[j] : j \in {c \in 1..Len(entries) :
                                results[n].failAt = 0 \/ c < results[n].failAt}}

\* C11 as stated: with all_files false and an explicit extension list, the
\* 'File Type' of every record is one of the listed extensions, compared
\* without case; no other file is returned.
C11_TypeInExtensions ==
    (Merged /\ ~all_files) =>
        \A n \in 1..Len(file_stats) :
            file_stats[n]["FileType"] \in
                {Lower(media_extensions[e]) : e \in 1..Len(media_extensions)}

\* C12: when no worker fails, the records are the matching files of exactly
\* the folders under root whose path contains no skip entry; with skip entry
\* 's' nothing at or below r/s is recorded, and a.mp3 of the root is.
C12_SkipBySubstring ==
    (Merged /\ ~scanError) =>
        /\ RecordsAre({p \in DOMAIN fs :
                          /\ IsUnder(root_folder, DirName(p))
                          /\ \A s \in 1..Len(skip_folders) :
                                 ~Contains(skip_folders[s], DirName(p))
                          /\ Matches(p)})
        /\ (root_folder = RootR /\ skip_folders = << <<"s">> >>) =>
               /\ \A n \in 1..Len(file_stats) : file_stats[n].SourceFolder = RootR
               /\ \E n \in 1..Len(file_stats) : file_stats[n].FileName = NameAM
               /\ \A n \in 1..Len(file_stats) :
                      /\ file_stats[n].FileName \notin {NameCM, NameDM}
                      /\ ~all_files => file_stats[n].FileName # NameBT

\* the scenario of the claim with a file below the skipped folder: one record
C12_Witness ==
    /\ Merged /\ ~scanError /\ ~all_files
    /\ root_folder = RootR /\ skip_folders = << <<"s">> >>
    /\ Join(DirU, NameDM) \in DOMAIN fs
    /\ Len(file_stats) = 1
    /\ file_stats[1].FileName = NameAM

\* C13: a failure in one folder is contained: the merged list holds, for
\* every scanned folder, the records of the entries reached before the
\* failure, and all records of a folder without a failure.
C13_FailureContained ==
    Merged =>
        /\ \A n \in 1..Len(tasks) :
               {SourcePath(file_stats[j]) :
                    j \in {c \in 1..Len(file_stats) :
                              file_stats[c].SourceFolder = tasks[n]}}
                 = {p \in Reached(n) : Matches(p)}
        /\ \A j \in 1..Len(file_stats) :
               \E n \in 1..Len(tasks) : file_stats[j].SourceFolder = tasks[n]

\* one folder failed at its second entry and kept the first, another is whole
C13_Witness ==
    /\ Merged
    /\ \E n \in 1..Len(tasks) :
           /\ results[n].failAt = 2
           /\ results[n].stats # <<>>
           /\ \E m \in 1..Len(tasks) :
                  /\ results[m].failAt = 0
                  /\ results[m].stats # <<>>
                  /\ \E j \in 1..Len(file_stats) : file_stats[j].SourceFolder = tasks[m]
           /\ \E j \in 1..Len(file_stats) : file_stats[j].SourceFolder = tasks[n]

\* C14: in whatever order the workers finish, the lists are merged only when
\* every task has returned, and when none failed the merged list holds every
\* matching file of the scanned folders exactly once.
C14_MergeAfterAll ==
    [][(pc = "scanning" /\ pc' = "scanned" /\ results' # <<>>) =>
          /\ \A n \in 1..Len(results) : results[n] # Pending
          /\ ~scanError =>
                 /\ Len(file_stats') = Cardinality({SourcePath(file_stats'[j]) :
                                                       j \in 1..Len(file_stats')})
                 /\ {SourcePath(file_stats'[j]) : j \in 1..Len(file_stats')}
                      = {p \in DOMAIN fs :
                            /\ \E n \in 1..Len(tasks) : DirName(p) = tasks[n]
                            /\ Matches(p)}]_vars

\* four tasks were run and merged: the files of three folders, each once
C14_Witness ==
    /\ Merged /\ ~scanError
    /\ Len(tasks) = 4
    /\ \A n \in 1..Len(results) : results[n].failAt = 0
    /\ Len(file_stats) = 3
    /\ {file_stats[j].SourceFolder : j \in 1..3} = {RootR, DirS, DirU}

\* generate_file_stats_csv has written a new file at the path it was given
CsvCreated == out.path \in DOMAIN fs /\ fs[out.path] = CsvInode

\* C20 as stated: after generate_file_stats_csv(csv_path) the file has been
\* created at csv_path exactly when the scan produced a record, and with no
\* record -1 is returned.
C20_CsvIffRecords ==
    out.op = "csv" =>
        /\ (file_stats # <<>>) <=> CsvCreated
        /\ file_stats = <<>> => out.ret = -1

\* C20: for a csv_path that can be opened for writing (its folder exists and
\* it is not itself a folder), the file is created exactly when the scan
\* produced a record; with no record nothing is created and -1 is returned.
C20_CsvWhenWritable ==
    (out.op = "csv" /\ DirName(out.path) \in dirs /\ out.path \notin dirs) =>
        /\ (file_stats # <<>>) <=> CsvCreated
        /\ file_stats = <<>> => (out.ret = -1 /\ out.path \notin DOMAIN fs)
        /\ file_stats # <<>> => out.ret # -1

\* a scan with records wrote file_stats.csv into its root
C20_Witness ==
    /\ out.op = "csv"
    /\ file_stats # <<>>
    /\ out.path = Join(root_folder, NameCsv)
    /\ CsvCreated

\* ------------------------------------------- properties of later claims
\* the state holds a constructed gatherer
IsGatherer == pc = "ready" \/ InRun \/ pc = "shown"

\* C21 as stated: no record of a gatherer lies in or below its destination
\* folder, so no file that is already in the destination of a move is among
\* the files selected for that move.
C21_DestinationNeverScanned ==
    /\ IsGatherer =>
           \A n \in 1..Len(file_stats) :
               ~IsUnder(dest_folder, file_stats[n].SourceFolder)
    /\ (InRun \/ pc = "shown") =>
           \A n \in 1..Len(files_to_move) :
               ~IsUnder(destination_folder, files_to_move[n].SourceFolder)

\* ------------------------------------------ conflict resolution on its own
\* names of the destination folder r/d: x.j, x(1).j, x(2).j, x(3).j, the
\* year-like x(20).j and the doubly suffixed x(1)(1).j
NameX2  == XName(2)
NameX3  == XName(3)
NameX20 == XName(20)
NameX11 == <<"x", "(", "1", ")", "(", "1", ")", ".", "j">>

\* the files the destination folder may hold
ResolveFiles ==
    { <<Join(DirD, NameX), 1>>,  <<Join(DirD, NameX1), 2>>, <<Join(DirD, NameX2), 3>>,
      <<Join(DirD, NameX3), 4>>, <<Join(DirD, NameX20), 5>>, <<Join(DirD, NameX11), 6>>,
      <<Join(DirD, NameB), 7>> }

\* the destination paths handle_file_conflict is asked to resolve
ResolveInputs == {Join(DirD, n) : n \in {NameX, NameX1, NameX20, NameX11, NameB}}

InitResolve ==
    /\ \E S \in SUBSET ResolveFiles : fs = FsOf(S)
    /\ dirs = {RootR, DirD}
    /\ pc = "ready"
    /\ root_folder = RootR
    /\ media_extensions = DefaultMediaExtensions
    /\ all_files = FALSE
    /\ skip_folders = << DirD >>
    /\ file_stats = <<>>
    /\ moved_files = EmptyMap
    /\ dest_folder = DirD
    /\ scanError = FALSE
    /\ files_to_move = <<>>
    /\ destination_folder = <<>>
    /\ batch_size = 0
    /\ i = 0
    /\ batch = <<>>
    /\ k = 0
    /\ fs0 = fs
    /\ attempts = <<>>
    /\ failed = {}
    /\ movedOrder = <<>>
    /\ sleeps = 0
    /\ batches = 0
    /\ denied = 0
    /\ vanished = 0
    /\ tasks = <<>>
    /\ results = <<>>
    /\ out = NoReport

\* a call of handle_file_conflict(destination_path) on a gatherer
HandleFileConflict(destination_path) ==
    /\ pc = "ready"
    /\ out' = [op |-> "handle_file_conflict", path |-> destination_path,
               result |-> handle_file_conflict(destination_path)]
    /\ pc' = "resolved"
    /\ UNCHANGED <<fs, dirs, root_folder, media_extensions, all_files, skip_folders,
                   file_stats, scanError, tasks, results, moveVars>>

NextResolve == \E destination_path \in ResolveInputs : HandleFileConflict(destination_path)

SpecResolve == InitResolve /\ [][NextResolve]_vars

\* the stem of each input with one trailing "(digits)" group taken off, and
\* its extension, written out by hand
StemOf(path) ==
    CASE path = Join(DirD, NameX)   -> Join(DirD, <<"x">>)
      [] path = Join(DirD, NameX1)  -> Join(DirD, <<"x">>)
      [] path = Join(DirD, NameX20) -> Join(DirD, <<"x">>)
      [] path = Join(DirD, NameX11) -> Join(DirD, <<"x", "(", "1", ")">>)
      [] OTHER                      -> Join(DirD, <<"b">>)

ExtOf(path) == IF path = Join(DirD, NameB) THEN <<".", "t">> ELSE <<".", "j">>

Candidate(path, n) == StemOf(path) \o <<"(">> \o Str(n) \o <<")">> \o ExtOf(path)

\* C22: for a desired path that exists, the resolved path is base(N).ext
\* with base the stem less exactly one trailing "(digits)" group and N the
\* smallest number from 1 whose candidate does not exist; N is at most one
\* more than the number of existing paths, so the probing ends.
C22_SmallestFreeSuffix ==
    (out.op = "handle_file_conflict" /\ Exists(out.path)) =>
        \E n \in 1..(Cardinality(DOMAIN fs \cup dirs) + 1) :
            /\ out.result = Candidate(out.path, n)
            /\ ~Exists(Candidate(out.path, n))
            /\ \A c \in 1..(n - 1) : Exists(Candidate(out.path, c))

\* x(20).j, x(1).j and x(2).j exist: x(20).j resolves from base x to x(3).j
C22_Witness ==
    /\ out.op = "handle_file_conflict"
    /\ out.path = Join(DirD, NameX20)
    /\ Exists(out.path)
    /\ Exists(Join(DirD, NameX1))
    /\ Exists(Join(DirD, NameX2))
    /\ out.result = Join(DirD, NameX3)

RECURSIVE FreePath(_, _, _, _, _)
\* handle_file_conflict / rename_if_exists on a given file system f with
\* directories ds: the first of desired, base(1).ext, base(2).ext, ... that
\* does not exist
FreePath(f, ds, new_filename, counter, desired) ==
    IF new_filename \in DOMAIN f \/ new_filename \in ds
    THEN FreePath(f, ds,
                  remove_number_suffix(SplitExt(desired)[1]) \o <<"(">> \o Str(counter)
                      \o <<")">> \o SplitExt(desired)[2],
                  counter + 1, desired)
    ELSE new_filename

\* a loop that writes the mapping before it moves
RECURSIVE WholeRunRecordFirst(_, _, _, _, _, _)
WholeRunRecordFirst(f, ds, m, recs, dest, bad) ==
    IF recs = <<>> THEN [fs |-> f, moved_files |-> m]
    ELSE LET source_path == SourcePath(Head(recs))
             desired     == DestinationPath(dest, Head(recs))
             resolved    == FreePath(f, ds, desired, 1, desired)
             recorded    == [p \in DOMAIN m \cup {source_path} |->
                                IF p = source_path THEN resolved ELSE m[p]]
         IN  IF source_path = desired
             THEN WholeRunRecordFirst(f, ds, m, Tail(recs), dest, bad)
             ELSE IF source_path \notin DOMAIN f \/ source_path \in bad
                  THEN [fs |-> f, moved_files |-> recorded]
             ELSE WholeRunRecordFirst(
                      [p \in (DOMAIN f \ {source_path}) \cup {resolved} |->
                          IF p = resolved THEN f[source_path] ELSE f[p]],
                      ds, recorded, Tail(recs), dest, bad)

RECURSIVE WholeRun(_, _, _, _, _, _)
\* the loop of one move_files_to_destination call over recs as a whole,
\* started on file system f with mapping m; a source that is missing or in
\* bad makes shutil.move raise, which ends the call
WholeRun(f, ds, m, recs, dest, bad) ==
    IF recs = <<>> THEN [fs |-> f, moved_files |-> m]
    ELSE LET source_path == SourcePath(Head(recs))
             desired     == DestinationPath(dest, Head(recs))
             resolved    == FreePath(f, ds, desired, 1, desired)
         IN  IF source_path = desired THEN WholeRun(f, ds, m, Tail(recs), dest, bad)
             ELSE IF source_path \notin DOMAIN f \/ source_path \in bad
                  THEN [fs |-> f, moved_files |-> m]
             ELSE WholeRun([p \in (DOMAIN f \ {source_path}) \cup {resolved} |->
                               IF p = resolved THEN f[source_path] ELSE f[p]],
                           ds,
                           [p \in DOMAIN m \cup {source_path} |->
                               IF p = source_path THEN resolved ELSE m[p]],
                           Tail(recs), dest, bad)

\* C24 as stated: when a run is over, batched with any batch size or not,
\* the file system and moved_files are what one unbatched move of the same
\* records from the same file system gives, the same records refusing to move.
C24_BatchingKeepsOutcome ==
    pc = "done" =>
        LET whole == WholeRun(fs0, dirs, EmptyMap, files_to_move, destination_folder, failed)
        IN  /\ fs = whole.fs
            /\ moved_files = whole.moved_files

\* ------------------------------------------- gather_media on a large folder
\* a root g that holds x(1).j .. x(n).j, n at or just above the threshold
RootG == <<"g">>

LargeFolder(n) == {<<Join(RootG, XName(j)), j>> : j \in 1..n}

InitGather ==
    /\ \E n \in {BatchThreshold, BatchThreshold + 1} : fs = FsOf(LargeFolder(n))
    /\ dirs = {RootG}
    /\ pc = "init"
    /\ root_folder = <<>>
    /\ media_extensions = <<>>
    /\ all_files = FALSE
    /\ skip_folders = <<>>
    /\ file_stats = <<>>
    /\ moved_files = EmptyMap
    /\ dest_folder = <<>>
    /\ scanError = FALSE
    /\ files_to_move = <<>>
    /\ destination_folder = <<>>
    /\ batch_size = 0
    /\ i = 0
    /\ batch = <<>>
    /\ k = 0
    /\ fs0 = fs
    /\ attempts = <<>>
    /\ failed = {}
    /\ movedOrder = <<>>
    /\ sleeps = 0
    /\ batches = 0
    /\ denied = 0
    /\ vanished = 0
    /\ tasks = <<>>
    /\ results = <<>>
    /\ out = NoReport

\* g = MediaGatherer('g'), then g.gather_media(...) to the default folder or
\* to the root itself, no move being refused
NextGather ==
    \/ NewMediaGatherer(RootG, None, FALSE, <<>>, NoFailure)
    \/ \E dest \in {None, RootG}, move_all \in BOOLEAN, size \in 1..MaxBatchSize :
           GatherMedia(dest, move_all, size)
    \/ BatchStart
    \/ BatchLoopExit
    \/ MoveSkip
    \/ MoveOk
    \/ MoveLoopEnd
    \/ BatchSleep
    \/ MoveReturn
    \/ ShowMovedStats

SpecGather == InitGather /\ [][NextGather]_vars

\* C25: a gather_media run is batched exactly when more than 100 records
\* were scanned; with 100 or fewer there is one group holding every selected
\* file, no batch and no delay, whatever batch_size was passed.
C25_BatchedOnlyAboveThreshold ==
    (InRun \/ pc = "shown") =>
        /\ (batch_size > 0) <=> (Len(file_stats) > 100)
        /\ Len(file_stats) > 100 =>
               (pc \in {"moving", "returned"} => Len(batch) <= batch_size)
        /\ Len(file_stats) <= 100 =>
               /\ sleeps = 0
               /\ batches = 0
               /\ pc \in {"moving", "returned"} => batch = files_to_move

\* 100 records were moved as one group, no batch, no delay
C25_Witness ==
    /\ pc = "shown"
    /\ Len(file_stats) = 100
    /\ Cardinality(DOMAIN moved_files) = 100
    /\ batch_size = 0 /\ sleeps = 0 /\ batches = 0

\* --------------------------------------------- a second gather_media call
RECURSIVE BatchedRun(_, _, _, _, _, _, _, _)
\* _batch_move_files as a whole: one call per slice from offset on
BatchedRun(f, ds, m, recs, dest, bad, size, offset) ==
    IF offset >= Len(recs) THEN [fs |-> f, moved_files |-> m]
    ELSE LET call == WholeRun(f, ds, m, Slice(recs, offset, offset + size), dest, bad)
         IN  BatchedRun(call.fs, ds, call.moved_files, recs, dest, bad, size, offset + size)

\* the destinations of a second call: the gatherer's own folder, or r/a
AgainDestinations == {None, DirA}

\* g.gather_media(destination_folder=dest, move_all, batch_size=size) called
\* again after a first run and its summary, as one step: the folder is made
\* if missing, the selected records are run through the move loop, the
\* summary is printed; the sources in bad refuse to move
GatherMediaAgain(dest, move_all, size, bad) ==
    LET destination == IF dest = None THEN dest_folder ELSE dest
        files       == get_files_to_move(all_files \/ move_all)
        ds          == IF Exists(destination) THEN dirs
                       ELSE dirs \cup MakeDirs(destination)
        run         == IF Len(file_stats) > BatchThreshold
                       THEN BatchedRun(fs, ds, moved_files, files, destination, bad, size, 0)
                       ELSE WholeRun(fs, ds, moved_files, files, destination, bad)
    IN  /\ pc = "shown"
        /\ bad \subseteq {SourcePath(files[n]) : n \in 1..Len(files)} \cap DOMAIN fs
        /\ denied + Cardinality(bad) <= MaxDenied
        /\ denied' = denied + Cardinality(bad)
        /\ dirs' = ds
        /\ dest_folder' = IF Exists(destination) THEN dest_folder ELSE destination
        /\ fs' = run.fs
        /\ moved_files' = run.moved_files
        /\ files_to_move' = files
        /\ destination_folder' = destination
        /\ fs0' = fs
        /\ out' = MovedStats(run.fs, run.moved_files)
        /\ pc' = "shown again"
        /\ UNCHANGED <<root_folder, media_extensions, all_files, skip_folders, file_stats,
                       scanError, batch_size, i, batch, k, attempts, failed, movedOrder,
                       sleeps, batches, vanished, tasks, results>>

NextAgain ==
    \/ Next
    \/ \E dest \in AgainDestinations, move_all \in BOOLEAN, size \in 1..MaxBatchSize,
          bad \in SUBSET DOMAIN fs :
           GatherMediaAgain(dest, move_all, size, bad)

SpecAgain == Init /\ [][NextAgain]_vars

\* every scanned record has been moved
AllMoved ==
    /\ file_stats # <<>>
    /\ \A n \in 1..Len(file_stats) : SourcePath(file_stats[n]) \in DOMAIN moved_files

\* C26: a second gather_media call on a gatherer whose first run moved every
\* record moves, renames and overwrites nothing and leaves moved_files as it
\* was.
C26_SecondCallIdempotent ==
    [][(pc = "shown" /\ pc' = "shown again" /\ AllMoved) =>
           /\ fs' = fs
           /\ moved_files' = moved_files]_vars

\* a second call was made after a first run that moved both records
C26_Witness ==
    /\ pc = "shown again"
    /\ AllMoved
    /\ Cardinality(DOMAIN moved_files) >= 2
    /\ \A s \in DOMAIN moved_files : s \notin DOMAIN fs /\ moved_files[s] \in DOMAIN fs

\* ------------------------------- two gatherers built from one skip list
\* skips = [...]; MediaGatherer(.., skip_folders=skips) and then
\* MediaGatherer(root, destination_folder=dest, skip_folders=skips, all_files=all):
\* __init__ appends to the list it is given and the collector keeps that very
\* list, so at the second call the caller's list is the first gatherer's
\* skip_folders
NewMediaGathererSameList(root, dest, all, fail) ==
    LET destination == IF dest = None THEN Join(root, <<"m">>) ELSE dest
        skip        == Append(skip_folders, destination)
    IN  /\ pc = "ready"
        /\ IF check_root_folder(root)
           THEN /\ CollectorInit(root, DefaultMediaExtensions, all, skip, fail)
                /\ moved_files' = EmptyMap
                /\ dest_folder' = destination
                /\ pc' = "ready again"
           ELSE /\ fail = NoFailure
                /\ pc' = "raised"
                /\ UNCHANGED <<root_folder, media_extensions, all_files, skip_folders,
                               file_stats, scanError, moved_files, dest_folder>>
        /\ UNCHANGED <<fs, dirs, runVars, ghostVars, denied, vanished>>
        /\ UNCHANGED reportVars

ConstructAgain ==
    \E root \in RootChoices, all \in BOOLEAN, dest \in DestChoices :
        LET destination == IF dest = None THEN Join(root, <<"m">>) ELSE dest
        IN  \E fail \in ScanFailures(root, Append(skip_folders, destination)) :
                NewMediaGathererSameList(root, dest, all, fail)

NextTwo ==
    \/ Construct
    \/ ConstructAgain

SpecTwo == Init /\ [][NextTwo]_vars

\* C27: a gatherer built from a skip list that the caller already gave to
\* another gatherer skips the caller's entries plus its own destination
\* folder and nothing else, the list having been left as the caller wrote it.
C27_CallerListUntouched ==
    pc = "ready again" =>
        \E skips \in SkipChoices : skip_folders = Append(skips, dest_folder)

\* directory d is at or below a folder that the skip entry names, by its path
\* or by its bare name; the empty entry names no folder
NamedBy(entry, d) ==
    /\ entry # <<>>
    /\ \E a \in dirs : /\ a = entry \/ BaseName(a) = entry
                       /\ IsUnder(a, d)

\* C28: a skip entry excludes only the directories at or below the folder it
\* names: when no worker fails, every matching file under root whose directory
\* is not at or below a named folder is recorded, also when the entry is the
\* empty string.
C28_SkipOnlyNamedFolders ==
    (pc = "scanned" /\ ~scanError) =>
        \A p \in DOMAIN fs :
            (/\ IsUnder(root_folder, DirName(p))
             /\ Matches(p)
             /\ \A s \in 1..Len(skip_folders) : ~NamedBy(skip_folders[s], DirName(p)))
                => p \in RecordPaths

====
